---- MODULE Spec2Model ----
(***************************************************************************)
(* CoreSingleton<T, AllocStrat, DisposeStrat, SyncStrat> and its policy    *)
(* classes (include/core_singleton.hpp, allocation_strategy.hpp,           *)
(* disposal_strategy.hpp, sync_strategy.hpp).                              *)
(*                                                                         *)
(* A behaviour is one run of one program: a set of CoreSingleton           *)
(* instantiations over one payload type T, called by up to NThreads        *)
(* threads.  GetInstance() and DestroyInstance() are modelled statement by *)
(* statement, so that every interleaving of the threads is a behaviour.    *)
(* Thread Main is the thread that leaves main(): it starts exit            *)
(* processing, runs the std::atexit handlers in reverse order of           *)
(* registration, and may call GetInstance() between two handlers (a        *)
(* static destructor or another handler using the singleton).              *)
(***************************************************************************)
EXTENDS Integers, Sequences, FiniteSets, TLC

\* Number of threads of the program (the tests spawn 8).
NThreads == 2
\* Cap on the constructions one instantiation performs in a run.
MaxAllocs == 2

Threads == 1..NThreads
Main == 1

(***************************************************************************)
(* The instantiations.  alloc/disp/sync are the three template arguments;  *)
(* use says which threads of the program call GetInstance() on it.         *)
(***************************************************************************)
Coordinators ==
  [ SingleThreadSingleton |-> [alloc |-> "New",   disp |-> "Standard",     sync |-> "None",        use |-> "main"],
    ThreadSafeSingleton   |-> [alloc |-> "New",   disp |-> "Standard",     sync |-> "Mutex",       use |-> "all"],
    AtomicSingleton       |-> [alloc |-> "New",   disp |-> "Standard",     sync |-> "Atomic",      use |-> "all"],
    ConfigManager         |-> [alloc |-> "Smart", disp |-> "Resurrection", sync |-> "Mutex",       use |-> "all"],
    PermanentLogger       |-> [alloc |-> "New",   disp |-> "Immortal",     sync |-> "None",        use |-> "main"],
    ThreadLogger          |-> [alloc |-> "New",   disp |-> "Immortal",     sync |-> "ThreadLocal", use |-> "all"],
    RawResurrectAtomic    |-> [alloc |-> "Raw",   disp |-> "Resurrection", sync |-> "Atomic",      use |-> "all"],
    RawImmortalMutex      |-> [alloc |-> "Raw",   disp |-> "Immortal",     sync |-> "Mutex",       use |-> "all"],
    SmartStandardMutex    |-> [alloc |-> "Smart", disp |-> "Standard",     sync |-> "Mutex",       use |-> "all"],
    ResurrectSingleThread |-> [alloc |-> "New",   disp |-> "Resurrection", sync |-> "None",        use |-> "main"],
    NoSyncShared          |-> [alloc |-> "New",   disp |-> "Standard",     sync |-> "None",        use |-> "all"],
    ReentrantMutex        |-> [alloc |-> "New",   disp |-> "Standard",     sync |-> "Mutex",       use |-> "all"],
    ReentrantAtomic       |-> [alloc |-> "New",   disp |-> "Standard",     sync |-> "Atomic",      use |-> "all"] ]

CoordNames == DOMAIN Coordinators

\* Main and one more thread.
TwoThreads == {t \in Threads : t <= Main + 1}

\* The programs: each a set of instantiations over the same payload type,
\* and the threads the program runs.
Programs ==
  { [coords |-> {"SingleThreadSingleton"}, threads |-> Threads],
    [coords |-> {"ThreadSafeSingleton"}, threads |-> Threads],
    [coords |-> {"AtomicSingleton"}, threads |-> Threads],
    [coords |-> {"SingleThreadSingleton", "ThreadSafeSingleton", "AtomicSingleton"},
     threads |-> TwoThreads],
    [coords |-> {"ConfigManager"}, threads |-> Threads],
    [coords |-> {"PermanentLogger"}, threads |-> Threads],
    [coords |-> {"ThreadLogger"}, threads |-> TwoThreads],
    [coords |-> {"RawResurrectAtomic"}, threads |-> Threads],
    [coords |-> {"RawImmortalMutex"}, threads |-> Threads],
    [coords |-> {"ResurrectSingleThread"}, threads |-> Threads],
    [coords |-> {"ConfigManager", "SmartStandardMutex"}, threads |-> TwoThreads],
    [coords |-> {"NoSyncShared"}, threads |-> TwoThreads],
    [coords |-> {"ReentrantMutex"}, threads |-> TwoThreads],
    [coords |-> {"ReentrantAtomic"}, threads |-> TwoThreads] }

\* The instantiations over a payload type whose constructor calls
\* GetInstance() of the instantiation that is constructing it.
CtorReenters(c) == c \in {"ReentrantMutex", "ReentrantAtomic"}

Alloc(c) == Coordinators[c].alloc
Disp(c) == Coordinators[c].disp
Sync(c) == Coordinators[c].sync

\* An instance is identified by the instantiation that constructed it and
\* the number of that construction; NULL is nullptr.
NULL == [owner |-> "nullptr", gen |-> 0]
Instance(c, n) == [owner |-> c, gen |-> n]

VARIABLES
  program,        \* the program that runs: its instantiations and threads
  instance_ptr_,  \* CoreSingleton::instance_ptr_, per instantiation
  was_destroyed_, \* CoreSingleton::was_destroyed_, per instantiation
  mutex_,         \* MutexSynchronizationStrategy<T>::SyncGuard::mutex_ is locked
  lock_flag_,     \* AtomicSynchronizationStrategy<T>::SyncGuard::lock_flag_ is set
  ptr_instance,   \* SmartPointerAllocationStrategy<T>::GetSharedPointer()::ptr_instance
  live,           \* the payload objects constructed and not yet destroyed
  atexit_list,    \* the functions registered with std::atexit, oldest first
  exiting,        \* exit processing has begun
  cleanup_func,   \* the instantiation whose DestroyInstance exit processing is running
  pc,             \* each thread's position
  cur,            \* the instantiation a thread's current or last call is on
  tmp,            \* the pointer Allocate() returned, before it is stored
  outcome,        \* how a thread's last GetInstance() ended
  ret,            \* the object its last GetInstance() returned a reference to
  call_epoch,     \* the DestroyInstance() runs before its current or last call began,
                  \* or Overlapped when a DestroyInstance() ran during the call
  allocs,         \* constructions performed, per instantiation
  destroys,       \* DestroyInstance() runs begun, per instantiation
  returned,       \* objects returned since the last DestroyInstance(), by calls
                  \* that did not overlap one
  faults          \* undefined behaviour met so far

vars == << program, instance_ptr_, was_destroyed_, mutex_, lock_flag_, ptr_instance,
           live, atexit_list, exiting, cleanup_func, pc, cur, tmp, outcome, ret, call_epoch,
           allocs, destroys, returned, faults >>

coordVars == << instance_ptr_, was_destroyed_ >>
lockVars == << mutex_, lock_flag_ >>
heapVars == << ptr_instance, live, allocs >>
exitVars == << atexit_list, exiting, cleanup_func, destroys >>
callVars == << outcome, ret, returned >>

DestroyLabels == {"D68", "D69", "D70", "D72"}
\* The positions at which a thread holds the SyncGuard of GetInstance().
\* At R43 the thread is in a GetInstance() called by the payload's
\* constructor, at line 43 of that nested call.
GuardedLabels == {"L46", "L48", "L54", "R43", "L54s", "L57", "L59", "unwind"}
\* The positions at which a thread holds the SyncGuard of DestroyInstance().
DestroyGuarded == {"D69", "D70", "D72"}

Destroying(c) == pc[Main] \in DestroyLabels /\ cleanup_func = c

\* The threads of the running program that call GetInstance() of c.
Callers(c) == IF Coordinators[c].use = "main" THEN {Main} ELSE program.threads

Overlapped == 0 - 1

Init ==
  /\ program \in Programs
  /\ instance_ptr_ = [c \in CoordNames |-> NULL]
  /\ was_destroyed_ = [c \in CoordNames |-> FALSE]
  /\ mutex_ = FALSE
  /\ lock_flag_ = FALSE
  /\ ptr_instance = NULL
  /\ live = {}
  /\ atexit_list = << >>
  /\ exiting = FALSE
  /\ cleanup_func = "none"
  /\ pc = [t \in Threads |-> "idle"]
  /\ cur = [t \in Threads |-> CHOOSE c \in program.coords : TRUE]
  /\ tmp = [t \in Threads |-> NULL]
  /\ outcome = [t \in Threads |-> "none"]
  /\ ret = [t \in Threads |-> NULL]
  /\ call_epoch = [t \in Threads |-> 0]
  /\ allocs = [c \in CoordNames |-> 0]
  /\ destroys = [c \in CoordNames |-> 0]
  /\ returned = [c \in CoordNames |-> {}]
  /\ faults = {}

(***************************************************************************)
(* SyncStrat<T>::SyncGuard                                                 *)
(***************************************************************************)
\* The constructor can complete: mutex_.lock() returns, or test_and_set()
\* finds the flag clear.  The guards of the two other policies are empty.
GuardFreeAlways(c) == TRUE

GuardFree(c) ==
  CASE Sync(c) = "Mutex" -> ~mutex_
    [] Sync(c) = "Atomic" -> ~lock_flag_
    [] OTHER -> TRUE

GuardAcquireNoLock(c) == UNCHANGED << mutex_, lock_flag_ >>

\* SyncGuard(): the lock is taken.
GuardAcquire(c) ==
  /\ GuardFree(c)
  /\ mutex_' = IF Sync(c) = "Mutex" THEN TRUE ELSE mutex_
  /\ lock_flag_' = IF Sync(c) = "Atomic" THEN TRUE ELSE lock_flag_

\* ~SyncGuard(): mutex_.unlock() or lock_flag_.clear().
GuardRelease(c) ==
  /\ mutex_' = IF Sync(c) = "Mutex" THEN FALSE ELSE mutex_
  /\ lock_flag_' = IF Sync(c) = "Atomic" THEN FALSE ELSE lock_flag_

(***************************************************************************)
(* DisposeStrat<T>                                                         *)
(***************************************************************************)
HandleDeadInstanceSilent(c) == FALSE

HandleDeadInstanceAlwaysThrows(c) == TRUE

\* HandleDeadInstance() throws std::runtime_error.
HandleDeadInstanceThrows(c) == Disp(c) = "Standard"

RegisterForCleanupAlways(c, list) == Append(list, c)

RegisterForCleanupNever(c, list) == list

\* RegisterForCleanup(&DestroyInstance): the atexit list afterwards.
RegisterForCleanup(c, list) ==
  IF Disp(c) \in {"Standard", "Resurrection"} THEN Append(list, c) ELSE list

(***************************************************************************)
(* AllocStrat<T>                                                           *)
(***************************************************************************)
\* The objects alive after Allocate() has constructed obj: make_shared's
\* result is assigned to the one shared_ptr of the payload type, which
\* drops the object it held.
LiveAfterAllocate(c, obj) ==
  IF Alloc(c) = "Smart" THEN (live \ {ptr_instance}) \cup {obj} ELSE live \cup {obj}

HandleAfterAllocate(c, obj) ==
  IF Alloc(c) = "Smart" THEN obj ELSE ptr_instance

\* The objects alive after Deallocate(p).
LiveAfterDeallocate(c, p) ==
  IF Alloc(c) = "Smart" THEN live \ {ptr_instance} ELSE live \ {p}

HandleAfterDeallocate(c) ==
  IF Alloc(c) = "Smart" THEN NULL ELSE ptr_instance

\* delete or free of an object already destroyed.
DeallocateFault(c, p) ==
  IF Alloc(c) # "Smart" /\ p # NULL /\ p \notin live THEN {"double_free"} ELSE {}

(***************************************************************************)
(* CoreSingleton::GetInstance()                                            *)
(***************************************************************************)
\* GetInstance() without its fast path: the guard is taken whatever line 41 finds.
FirstCheckAlwaysSlow(t, c) ==
  /\ pc[t] = "idle"
  /\ c \in program.coords
  /\ t \in Callers(c)
  /\ pc' = [pc EXCEPT ![t] = "L43"]
  /\ cur' = [cur EXCEPT ![t] = c]
  /\ call_epoch' = [call_epoch EXCEPT ![t] = IF Destroying(c) THEN Overlapped ELSE destroys[c]]
  /\ outcome' = [outcome EXCEPT ![t] = "none"]
  /\ ret' = [ret EXCEPT ![t] = NULL]
  /\ UNCHANGED << program, coordVars, lockVars, heapVars, exitVars, tmp, returned, faults >>

\* A thread calls GetInstance() of instantiation c.
\* line 41: if (!instance_ptr_), read without the guard.
FirstCheck(t, c) ==
  /\ pc[t] = "idle"
  /\ c \in program.coords
  /\ t \in Callers(c)
  /\ pc' = [pc EXCEPT ![t] = IF instance_ptr_[c] = NULL THEN "L43" ELSE "L60"]
  /\ cur' = [cur EXCEPT ![t] = c]
  /\ call_epoch' = [call_epoch EXCEPT ![t] = IF Destroying(c) THEN Overlapped ELSE destroys[c]]
  /\ outcome' = [outcome EXCEPT ![t] = "none"]
  /\ ret' = [ret EXCEPT ![t] = NULL]
  /\ UNCHANGED << program, coordVars, lockVars, heapVars, exitVars, tmp, returned, faults >>

\* line 43: SyncGuard sync_guard; of a call, or of a call nested in the
\* payload's constructor.  The nested call goes on at line 46 like any
\* other; the frames it would return to are not kept.
Lock(t) ==
  /\ pc[t] \in {"L43", "R43"}
  /\ GuardAcquire(cur[t])
  /\ pc' = [pc EXCEPT ![t] = "L46"]
  /\ UNCHANGED << program, coordVars, heapVars, exitVars, cur, tmp, callVars, call_epoch, faults >>

SecondCheckSkipped(c) == "L48"

\* line 46: if (!instance_ptr_), under the guard.
SecondCheckTarget(c) == IF instance_ptr_[c] = NULL THEN "L48" ELSE "L59"

SecondCheck(t) ==
  /\ pc[t] = "L46"
  /\ pc' = [pc EXCEPT ![t] = SecondCheckTarget(cur[t])]
  /\ UNCHANGED << program, coordVars, lockVars, heapVars, exitVars, cur, tmp, callVars,
                  call_epoch, faults >>

\* lines 48-51: if (was_destroyed_) { HandleDeadInstance(); was_destroyed_ = false; }
DeadCheck(t) ==
  LET c == cur[t] IN
  /\ pc[t] = "L48"
  /\ IF was_destroyed_[c] /\ HandleDeadInstanceThrows(c)
       THEN /\ pc' = [pc EXCEPT ![t] = "unwind"]
            /\ outcome' = [outcome EXCEPT ![t] = "dead_instance"]
            /\ UNCHANGED was_destroyed_
       ELSE /\ pc' = [pc EXCEPT ![t] = "L54"]
            /\ was_destroyed_' = [was_destroyed_ EXCEPT ![c] = FALSE]
            /\ UNCHANGED outcome
  /\ UNCHANGED << program, instance_ptr_, lockVars, heapVars, exitVars, cur, tmp, ret,
                  returned, call_epoch, faults >>

\* line 54, right-hand side: AllocStrat<T>::Allocate() constructs the payload.
Allocate(t) ==
  LET c == cur[t]
      obj == Instance(c, allocs[c] + 1) IN
  /\ pc[t] = "L54"
  /\ allocs[c] < MaxAllocs
  /\ tmp' = [tmp EXCEPT ![t] = obj]
  /\ live' = LiveAfterAllocate(c, obj)
  /\ ptr_instance' = HandleAfterAllocate(c, obj)
  /\ allocs' = [allocs EXCEPT ![c] = @ + 1]
  /\ pc' = [pc EXCEPT ![t] = "L54s"]
  /\ UNCHANGED << program, coordVars, lockVars, exitVars, cur, callVars, call_epoch, faults >>

\* line 54: Allocate() throws std::bad_alloc (malloc returned null, or
\* operator new / make_shared found no storage).
AllocateThrows(t) ==
  /\ pc[t] = "L54"
  /\ pc' = [pc EXCEPT ![t] = "unwind"]
  /\ outcome' = [outcome EXCEPT ![t] = "bad_alloc"]
  /\ UNCHANGED << program, coordVars, lockVars, heapVars, exitVars, cur, tmp, ret,
                  returned, call_epoch, faults >>

\* line 54, inside Allocate(): the payload's constructor calls GetInstance();
\* line 41 of the nested call finds the slot empty and line 43 is reached.
NestedFirstCheck(t) ==
  /\ pc[t] = "L54"
  /\ CtorReenters(cur[t])
  /\ instance_ptr_[cur[t]] = NULL
  /\ pc' = [pc EXCEPT ![t] = "R43"]
  /\ UNCHANGED << program, coordVars, lockVars, heapVars, exitVars, cur, tmp, callVars,
                  call_epoch, faults >>

\* line 43 of the nested call: mutex_.lock() by the thread that owns mutex_
\* is undefined behaviour; it blocks for ever (no step) or, where the
\* library detects it, throws std::system_error, which leaves the
\* constructor, Allocate() and the guarded block of the outer call.
NestedLockThrows(t) ==
  /\ pc[t] = "R43"
  /\ Sync(cur[t]) = "Mutex"
  /\ pc' = [pc EXCEPT ![t] = "unwind"]
  /\ outcome' = [outcome EXCEPT ![t] = "system_error"]
  /\ UNCHANGED << program, coordVars, lockVars, heapVars, exitVars, cur, tmp, ret,
                  returned, call_epoch, faults >>

\* line 54, assignment: instance_ptr_ = <the pointer Allocate() returned>.
Store(t) ==
  /\ pc[t] = "L54s"
  /\ instance_ptr_' = [instance_ptr_ EXCEPT ![cur[t]] = tmp[t]]
  /\ tmp' = [tmp EXCEPT ![t] = NULL]
  /\ pc' = [pc EXCEPT ![t] = "L57"]
  /\ UNCHANGED << program, was_destroyed_, lockVars, heapVars, exitVars, cur, callVars,
                  call_epoch, faults >>

\* line 57: DisposeStrat<T>::RegisterForCleanup(&DestroyInstance);
Register(t) ==
  /\ pc[t] = "L57"
  /\ atexit_list' = RegisterForCleanup(cur[t], atexit_list)
  /\ pc' = [pc EXCEPT ![t] = "L59"]
  /\ UNCHANGED << program, coordVars, lockVars, heapVars, exiting, cleanup_func, destroys,
                  cur, tmp, callVars, call_epoch, faults >>

\* line 59: the guarded block ends, ~SyncGuard() runs.
Unlock(t) ==
  /\ pc[t] = "L59"
  /\ GuardRelease(cur[t])
  /\ pc' = [pc EXCEPT ![t] = "L60"]
  /\ UNCHANGED << program, coordVars, heapVars, exitVars, cur, tmp, callVars, call_epoch, faults >>

UnwindKeepsGuard(c) == UNCHANGED << mutex_, lock_flag_ >>

\* An exception leaves the guarded block: ~SyncGuard() runs during
\* unwinding and the exception reaches the caller.
UnwindRelease(c) == GuardRelease(c)

Unwind(t) ==
  /\ pc[t] = "unwind"
  /\ UnwindRelease(cur[t])
  /\ pc' = [pc EXCEPT ![t] = "idle"]
  /\ UNCHANGED << program, coordVars, heapVars, exitVars, cur, tmp, callVars, call_epoch, faults >>

\* line 60: return *instance_ptr_; the slot is read again.
ReturnFault(p) ==
  IF p = NULL THEN {"null_dereference"}
  ELSE IF p \notin live THEN {"dangling_reference"} ELSE {}

Return(t) ==
  LET c == cur[t]
      p == instance_ptr_[c] IN
  /\ pc[t] = "L60"
  /\ ret' = [ret EXCEPT ![t] = p]
  /\ outcome' = [outcome EXCEPT ![t] = "returned"]
  /\ returned' = IF call_epoch[t] # Overlapped
                 THEN [returned EXCEPT ![c] = @ \cup {p}] ELSE returned
  /\ faults' = faults \cup ReturnFault(p)
  /\ pc' = [pc EXCEPT ![t] = "idle"]
  /\ UNCHANGED << program, coordVars, lockVars, heapVars, exitVars, cur, tmp, call_epoch >>

(***************************************************************************)
(* Process exit and CoreSingleton::DestroyInstance()                       *)
(***************************************************************************)
\* main() returns (or exit() is called) on thread Main.
Exit ==
  /\ ~exiting
  /\ pc[Main] = "idle"
  /\ exiting' = TRUE
  /\ UNCHANGED << program, coordVars, lockVars, heapVars, atexit_list, cleanup_func,
                  destroys, pc, cur, tmp, callVars, call_epoch, faults >>

\* Exit processing calls the function registered last: DestroyInstance()
\* of some instantiation begins.
RunHandler ==
  /\ exiting
  /\ pc[Main] = "idle"
  /\ atexit_list # << >>
  /\ LET c == atexit_list[Len(atexit_list)] IN
       /\ atexit_list' = SubSeq(atexit_list, 1, Len(atexit_list) - 1)
       /\ cleanup_func' = c
       /\ pc' = [pc EXCEPT ![Main] = "D68"]
       /\ destroys' = [destroys EXCEPT ![c] = @ + 1]
       /\ returned' = [returned EXCEPT ![c] = {}]
       /\ call_epoch' = [t \in Threads |->
                           IF t # Main /\ pc[t] # "idle" /\ cur[t] = c
                             THEN Overlapped ELSE call_epoch[t]]
  /\ UNCHANGED << program, coordVars, lockVars, heapVars, exiting, cur, tmp, outcome, ret,
                  faults >>

\* line 68: SyncGuard sync_guard;
DestroyLock ==
  /\ pc[Main] = "D68"
  /\ GuardAcquire(cleanup_func)
  /\ pc' = [pc EXCEPT ![Main] = "D69"]
  /\ UNCHANGED << program, coordVars, heapVars, exitVars, cur, tmp, callVars, call_epoch, faults >>

\* line 69: AllocStrat<T>::Deallocate(instance_ptr_);
Deallocate ==
  LET c == cleanup_func
      p == instance_ptr_[c] IN
  /\ pc[Main] = "D69"
  /\ live' = LiveAfterDeallocate(c, p)
  /\ ptr_instance' = HandleAfterDeallocate(c)
  /\ faults' = faults \cup DeallocateFault(c, p)
  /\ pc' = [pc EXCEPT ![Main] = "D70"]
  /\ UNCHANGED << program, coordVars, lockVars, allocs, exitVars, cur, tmp, callVars, call_epoch >>

\* lines 70-71: instance_ptr_ = nullptr; was_destroyed_ = true;
MarkDestroyed ==
  LET c == cleanup_func IN
  /\ pc[Main] = "D70"
  /\ instance_ptr_' = [instance_ptr_ EXCEPT ![c] = NULL]
  /\ was_destroyed_' = [was_destroyed_ EXCEPT ![c] = TRUE]
  /\ pc' = [pc EXCEPT ![Main] = "D72"]
  /\ UNCHANGED << program, lockVars, heapVars, exitVars, cur, tmp, callVars, call_epoch, faults >>

\* line 72: DestroyInstance() returns, ~SyncGuard() runs.
DestroyUnlock ==
  /\ pc[Main] = "D72"
  /\ GuardRelease(cleanup_func)
  /\ cleanup_func' = "none"
  /\ pc' = [pc EXCEPT ![Main] = "idle"]
  /\ UNCHANGED << program, coordVars, heapVars, atexit_list, exiting, destroys, cur, tmp,
                  callVars, call_epoch, faults >>

Next ==
  \/ \E t \in Threads : \E c \in CoordNames : FirstCheck(t, c)
  \/ \E t \in Threads : Lock(t)
  \/ \E t \in Threads : SecondCheck(t)
  \/ \E t \in Threads : DeadCheck(t)
  \/ \E t \in Threads : Allocate(t)
  \/ \E t \in Threads : AllocateThrows(t)
  \/ \E t \in Threads : NestedFirstCheck(t)
  \/ \E t \in Threads : NestedLockThrows(t)
  \/ \E t \in Threads : Store(t)
  \/ \E t \in Threads : Register(t)
  \/ \E t \in Threads : Unlock(t)
  \/ \E t \in Threads : Unwind(t)
  \/ \E t \in Threads : Return(t)
  \/ Exit
  \/ RunHandler
  \/ DestroyLock
  \/ Deallocate
  \/ MarkDestroyed
  \/ DestroyUnlock

Spec == Init /\ [][Next]_vars

(***************************************************************************)
(* Vocabulary of the properties                                            *)
(***************************************************************************)
Coords == program.coords

\* The guard of c is a lock.
Exclusive(c) == Sync(c) \in {"Mutex", "Atomic"}

\* The guarded sections of c cannot overlap: its guard is a lock, or one
\* thread alone calls it.
Serialized(c) == Exclusive(c) \/ Callers(c) = {Main}

\* c uses the shared_ptr of the payload type together with another
\* instantiation of the program.
HandleShared(c) ==
  Alloc(c) = "Smart" /\ \E d \in Coords \ {c} : Alloc(d) = "Smart"

\* The live payload objects that c constructed.
LiveOf(c) == {o \in live : o.owner = c}

\* The DestroyInstance registrations of c that exit processing has not run yet.
Pending(c) == Cardinality({i \in 1..Len(atexit_list) : atexit_list[i] = c})

\* The thread's last GetInstance() has returned or raised.
Done(t) == pc[t] = "idle" /\ outcome[t] # "none"

\* Some thread is between Allocate() and the end of RegisterForCleanup() on c.
Creating(c) == \E t \in Threads : cur[t] = c /\ pc[t] \in {"L54s", "L57"}

\* The threads inside a guarded section of an instantiation whose guard is `kind`.
Holders(kind) ==
  {t \in Threads : \/ pc[t] \in GuardedLabels /\ Sync(cur[t]) = kind
                   \/ pc[t] \in DestroyGuarded /\ Sync(cleanup_func) = kind}

(***************************************************************************)
(* C1: under the mutex or the atomic-spin policy, threads that call        *)
(* GetInstance() concurrently on a never-created coordinator cause exactly *)
(* one construction, and every call that returns returns that one instance.*)
(***************************************************************************)
C1_OneConstructionUnderContention ==
  \A c \in Coords :
    (Exclusive(c) /\ destroys[c] = 0) =>
      /\ allocs[c] <= 1
      /\ \A t \in Threads :
           (Done(t) /\ cur[t] = c /\ outcome[t] = "returned") =>
             (allocs[c] = 1 /\ ret[t] = Instance(c, 1))

\* Every thread of a multi-threaded program has returned from GetInstance()
\* of a locked coordinator, all with the first instance.
C1_Witness ==
  \E c \in Coords :
    /\ Exclusive(c)
    /\ destroys[c] = 0
    /\ program.threads = Threads
    /\ \A t \in Threads :
         Done(t) /\ cur[t] = c /\ outcome[t] = "returned" /\ ret[t] = Instance(c, 1)

(***************************************************************************)
(* C2 as stated: for every coordinator whose policy is no-op, mutex or     *)
(* atomic-spin, with any number of calling threads, the references         *)
(* returned between two runs of the destroy routine have one identity and  *)
(* the coordinator never has more than one live payload instance.          *)
(***************************************************************************)
C2_UniqueForEveryNonThreadLocalPolicy ==
  \A c \in Coords :
    Sync(c) # "ThreadLocal" =>
      (Cardinality(LiveOf(c)) <= 1 /\ Cardinality(returned[c]) <= 1)

(***************************************************************************)
(* C2 amended: the same, for mutex and atomic-spin coordinators with any   *)
(* number of threads and for no-op coordinators called by one thread.      *)
(***************************************************************************)
C2_UniqueWhenSerialized ==
  \A c \in Coords :
    (Exclusive(c) \/ (Sync(c) = "None" /\ Callers(c) = {Main})) =>
      (Cardinality(LiveOf(c)) <= 1 /\ Cardinality(returned[c]) <= 1)

\* A no-op coordinator, called by Main alone, has been created and returned.
C2_Witness ==
  \E c \in Coords :
    /\ Sync(c) = "None"
    /\ Callers(c) = {Main}
    /\ Done(Main) /\ cur[Main] = c /\ outcome[Main] = "returned"
    /\ returned[c] = {instance_ptr_[c]}
    /\ LiveOf(c) = {instance_ptr_[c]}

(***************************************************************************)
(* C3: under ThreadLocalStrategy two distinct threads that call            *)
(* GetInstance() obtain distinct instances.                                *)
(***************************************************************************)
C3_ThreadsGetDistinctInstances ==
  \A c \in Coords :
    Sync(c) = "ThreadLocal" =>
      \A t1, t2 \in Threads :
        (/\ t1 # t2
         /\ Done(t1) /\ cur[t1] = c /\ outcome[t1] = "returned"
         /\ Done(t2) /\ cur[t2] = c /\ outcome[t2] = "returned")
        => ret[t1] # ret[t2]

(***************************************************************************)
(* C4: under the standard disposal policy, once DestroyInstance() has run, *)
(* a GetInstance() call raises the dead-instance error and nothing is      *)
(* allocated any more.  Stated for the instantiations whose guarded        *)
(* sections cannot overlap.                                                *)
(***************************************************************************)
C4_DeadInstanceRejected ==
  \A c \in Coords :
    (Disp(c) = "Standard" /\ Serialized(c)) =>
      /\ destroys[c] >= 1 => allocs[c] = 1
      /\ was_destroyed_[c] => (instance_ptr_[c] = NULL /\ LiveOf(c) = {})
      /\ \A t \in Threads :
           (Done(t) /\ cur[t] = c /\ call_epoch[t] >= 1) => outcome[t] = "dead_instance"

\* A call made after DestroyInstance() of a locked standard-disposal
\* instantiation has raised the dead-instance error.
C4_Witness ==
  \E c \in Coords, t \in Threads :
    /\ Disp(c) = "Standard" /\ Exclusive(c)
    /\ was_destroyed_[c]
    /\ Done(t) /\ cur[t] = c /\ call_epoch[t] >= 1 /\ outcome[t] = "dead_instance"

(***************************************************************************)
(* C5: under the resurrection policy a GetInstance() call made after       *)
(* DestroyInstance() has run raises no dead-instance error and (when       *)
(* Allocate() finds storage) returns a newly constructed instance, with    *)
(* was_destroyed_ cleared, every construction registered for cleanup, and  *)
(* exactly one live instance of the coordinator when it returns.           *)
(***************************************************************************)
ResurrectionRecreates(c) ==
  /\ \A t \in Threads :
       (Done(t) /\ cur[t] = c /\ call_epoch[t] >= 1) =>
         /\ outcome[t] \in {"returned", "bad_alloc"}
         /\ outcome[t] = "returned" => ret[t] = Instance(c, call_epoch[t] + 1)
  /\ \A t \in Threads :
       (pc[t] = "L60" /\ cur[t] = c /\ call_epoch[t] >= 1) =>
         /\ ~was_destroyed_[c]
         /\ instance_ptr_[c] = Instance(c, call_epoch[t] + 1)
         /\ LiveOf(c) = {instance_ptr_[c]}
  /\ ~Creating(c) => allocs[c] = destroys[c] + Pending(c)

C5_ResurrectionRecreates ==
  \A c \in Coords :
    (Disp(c) = "Resurrection" /\ Serialized(c)) => ResurrectionRecreates(c)

\* C5 holds of the resurrection instantiations that do not share the
\* shared_ptr of the payload type with another instantiation.
C5_HoldsWithoutSharedHandle ==
  \A c \in Coords :
    (Disp(c) = "Resurrection" /\ Serialized(c) /\ ~HandleShared(c)) =>
      ResurrectionRecreates(c)

\* A call made after DestroyInstance() of a resurrection instantiation has
\* returned the second instance, which is live and registered for cleanup.
C5_RecreatedReached ==
  \E c \in Coords, t \in Threads :
    /\ Disp(c) = "Resurrection" /\ Serialized(c) /\ ~HandleShared(c)
    /\ Done(t) /\ cur[t] = c /\ call_epoch[t] >= 1 /\ outcome[t] = "returned"
    /\ ret[t] = instance_ptr_[c] /\ ret[t] \in live /\ ret[t].gen >= 2
    /\ Pending(c) = 1

C7_StableIdentity ==
  \A c \in Coords :
    Serialized(c) =>
      /\ returned[c] \subseteq {Instance(c, destroys[c] + 1)}
      /\ allocs[c] <= destroys[c] + 1
      /\ (destroys[c] = 0 /\ instance_ptr_[c] # NULL /\ ~HandleShared(c)) =>
           LiveOf(c) = {instance_ptr_[c]}

\* After one destroy-then-recreate cycle the calls return the second instance.
C7_Witness ==
  \E c \in Coords :
    /\ Serialized(c)
    /\ destroys[c] = 1
    /\ returned[c] = {Instance(c, 2)}
    /\ \E t \in Threads : Done(t) /\ cur[t] = c /\ ret[t] = Instance(c, 2)

(***************************************************************************)
(* C8: coordinators over the same payload type are independent: when every *)
(* coordinator of a program has been accessed, exactly one payload         *)
(* instance per coordinator is live.                                       *)
(***************************************************************************)
C8_OneLiveInstancePerCoordinator ==
  ( /\ \A c \in Coords : Serialized(c) /\ instance_ptr_[c] # NULL
    /\ ~exiting
    /\ \A t \in Threads : pc[t] = "idle" )
  => /\ Cardinality(live) = Cardinality(Coords)
     /\ \A c \in Coords : LiveOf(c) = {instance_ptr_[c]}

(***************************************************************************)
(* C9: under the reference-counted allocation policy an occupied slot      *)
(* always refers to an instance that is still alive: Allocate() or         *)
(* Deallocate() of another coordinator never destroys it.                  *)
(***************************************************************************)
C9_SlotInstanceAlive ==
  \A c \in Coords :
    (Alloc(c) = "Smart" /\ instance_ptr_[c] # NULL /\ ~Destroying(c)) =>
      instance_ptr_[c] \in live

(***************************************************************************)
(* C10: under the mutex and atomic-spin policies the guard is released on  *)
(* every exit path of GetInstance() and DestroyInstance(): the lock is     *)
(* held only while some thread is inside a guarded section, by one thread. *)
(***************************************************************************)
C10_GuardReleased ==
  /\ mutex_ => Cardinality(Holders("Mutex")) = 1
  /\ lock_flag_ => Cardinality(Holders("Atomic")) = 1
  /\ ~mutex_ => Holders("Mutex") = {}
  /\ ~lock_flag_ => Holders("Atomic") = {}

\* A call has raised an error and another thread has since acquired the
\* guard of the same instantiation.
C10_Witness ==
  \E c \in Coords, t1, t2 \in Threads :
    /\ Exclusive(c)
    /\ t1 # t2
    /\ Done(t1) /\ cur[t1] = c /\ outcome[t1] \in {"dead_instance", "bad_alloc"}
    /\ cur[t2] = c /\ pc[t2] = "L46"

(***************************************************************************)
(* C11: when a GetInstance() call fails (HandleDeadInstance() or           *)
(* Allocate() throws) the slot is empty and the call has registered no     *)
(* DestroyInstance; a later call whose Allocate() succeeds creates the     *)
(* instance as usual: it returns the instance in the slot, the last one    *)
(* constructed, with was_destroyed_ clear and one registration pending.    *)
(* Stated for the instantiations whose guarded sections cannot overlap.    *)
(***************************************************************************)
C11_FailureLeavesSlotEmpty ==
  \A c \in Coords :
    Serialized(c) =>
      /\ \A t \in Threads :
           (pc[t] = "unwind" /\ cur[t] = c) =>
             /\ outcome[t] \in {"dead_instance", "bad_alloc", "system_error"}
             /\ instance_ptr_[c] = NULL
             /\ tmp[t] = NULL
             /\ Pending(c) = 0
      /\ \A t \in Threads :
           (/\ Done(t) /\ cur[t] = c /\ outcome[t] = "returned"
            /\ call_epoch[t] = destroys[c] /\ ~Creating(c)) =>
             /\ ret[t] = instance_ptr_[c]
             /\ ret[t] = Instance(c, allocs[c])
             /\ ~was_destroyed_[c]
             /\ Disp(c) # "Immortal" => Pending(c) = 1

\* Between the same two runs of DestroyInstance() one thread's call failed
\* in Allocate() and another thread's call created and returned the instance.
C11_Witness ==
  \E c \in Coords, t1, t2 \in Threads :
    /\ Exclusive(c)
    /\ Done(t1) /\ cur[t1] = c /\ outcome[t1] = "bad_alloc"
    /\ Done(t2) /\ cur[t2] = c /\ outcome[t2] = "returned"
    /\ call_epoch[t1] = destroys[c] /\ call_epoch[t2] = destroys[c]
    /\ ret[t2] = instance_ptr_[c] /\ ret[t2] \in live
    /\ Pending(c) = 1

(***************************************************************************)
(* C12: under the mutex and atomic-spin policies, whenever the slot is     *)
(* occupied (so that the unguarded read of line 41 can find it occupied)   *)
(* the instance is constructed, was_destroyed_ is clear and the            *)
(* RegisterForCleanup() call for that instance has completed.              *)
(***************************************************************************)
C12_OccupiedImpliesComplete ==
  \A c \in Coords :
    (Exclusive(c) /\ instance_ptr_[c] # NULL) =>
      /\ instance_ptr_[c] = Instance(c, allocs[c])
      /\ ~was_destroyed_[c]
      /\ ~\E t \in Threads : cur[t] = c /\ pc[t] = "L57"

(***************************************************************************)
(* C13: the liveness state read from (instance_ptr_, was_destroyed_) never *)
(* goes back to never-created: once DestroyInstance() has run for a        *)
(* coordinator, the coordinator is never again seen, outside a guarded     *)
(* section, with an empty slot and was_destroyed_ false.                   *)
(***************************************************************************)
C13_NeverCreatedNotReentered ==
  \A c \in Coords :
    (/\ Serialized(c)
     /\ destroys[c] >= 1
     /\ ~Destroying(c)
     /\ ~\E t \in Threads : cur[t] = c /\ pc[t] \in GuardedLabels) =>
      ~(instance_ptr_[c] = NULL /\ ~was_destroyed_[c])

\* The positions whose next statement reads or writes instance_ptr_ or
\* was_destroyed_, other than the first check of line 41.
SlotAccessLabels == {"L46", "L48", "L54s", "L60", "D69", "D70"}

\* The instantiation the thread's current function works on.
Target(t) == IF pc[t] \in DestroyLabels THEN cleanup_func ELSE cur[t]

\* The thread holds the lock of instantiation c.
HoldsGuard(t, c) ==
  /\ t \in Holders(Sync(c))
  /\ IF Sync(c) = "Mutex" THEN mutex_ ELSE lock_flag_

\* C14, first part: under the mutex and atomic-spin policies at most one
\* thread holds the guard, and every step that changes instance_ptr_ or
\* was_destroyed_ is taken by the thread that holds it.
C14_WritesUnderGuard ==
  /\ [](Cardinality(Holders("Mutex")) <= 1 /\ Cardinality(Holders("Atomic")) <= 1)
  /\ [][\A c \in Coords :
          (/\ Exclusive(c)
           /\ \/ instance_ptr_'[c] # instance_ptr_[c]
              \/ was_destroyed_'[c] # was_destroyed_[c]) =>
            \E t \in Threads : pc'[t] # pc[t] /\ Target(t) = c /\ HoldsGuard(t, c)]_vars

(***************************************************************************)
(* C14: under the mutex and atomic-spin policies at most one thread holds  *)
(* the guard, every write to instance_ptr_ or was_destroyed_ is made by    *)
(* the thread that holds it, and the first check of line 41 is the only    *)
(* access to them made without the guard.                                  *)
(***************************************************************************)
C14_OnlyFirstCheckUnguarded ==
  /\ C14_WritesUnderGuard
  /\ [][\A t \in Threads :
          (pc'[t] # pc[t] /\ pc[t] \in SlotAccessLabels /\ Exclusive(Target(t))) =>
            HoldsGuard(t, Target(t))]_vars

(***************************************************************************)
(* C18: under the mutex and atomic-spin policies, whatever the             *)
(* interleaving of GetInstance() calls with DestroyInstance(), the         *)
(* dereference of line 60 reads an occupied slot whose instance has not    *)
(* been deallocated.  Stated for the instantiations that do not share the  *)
(* shared_ptr of the payload type, so that only the slot's own             *)
(* DestroyInstance() can have deallocated the instance.                    *)
(***************************************************************************)
C18_ReturnReadsLiveSlot ==
  [][\A t \in Threads :
       (/\ pc[t] = "L60" /\ pc'[t] = "idle"
        /\ Exclusive(cur[t]) /\ ~HandleShared(cur[t])) =>
         /\ instance_ptr_[cur[t]] # NULL
         /\ instance_ptr_[cur[t]] \in live]_vars

(***************************************************************************)
(* Scheduling.  A thread inside GetInstance() or DestroyInstance() keeps   *)
(* running: each statement that is ready is eventually executed.  Guard    *)
(* acquisition is strongly fair: a thread in mutex_.lock() or in the       *)
(* test_and_set() loop that finds the lock free again and again            *)
(* eventually takes it.  Whether a thread calls GetInstance() at all, and  *)
(* whether the process exits, is left open.                                *)
(***************************************************************************)
\* A statement of thread t other than a guard acquisition.
Proceed(t) ==
  \/ SecondCheck(t) \/ DeadCheck(t) \/ Allocate(t) \/ AllocateThrows(t)
  \/ Store(t) \/ Register(t) \/ Unlock(t) \/ Unwind(t) \/ Return(t)
  \/ (t = Main /\ (Deallocate \/ MarkDestroyed \/ DestroyUnlock))

\* A guard acquisition of thread t.
Acquire(t) == Lock(t) \/ (t = Main /\ DestroyLock)

FairSpec ==
  /\ Init /\ [][Next]_vars
  /\ \A t \in Threads : WF_vars(Proceed(t)) /\ SF_vars(Acquire(t))

C16_FastPathFrame ==
  /\ [][\A t \in Threads :
          /\ (/\ pc[t] = "idle" /\ pc'[t] \in {"L43", "L60"}
              /\ instance_ptr_[cur'[t]] # NULL) =>
               /\ pc'[t] = "L60"
               /\ UNCHANGED << coordVars, lockVars, atexit_list >>
          /\ (pc[t] = "L60" /\ pc'[t] # "L60") =>
               /\ pc'[t] = "idle" /\ outcome'[t] = "returned"
               /\ UNCHANGED << coordVars, lockVars, atexit_list >>]_vars
  /\ [](\A t \in Threads : pc[t] = "L60" => ENABLED Return(t))

\* A call that found the slot occupied has returned the instance while the
\* thread that created the instance still holds the guard.
C16_Witness ==
  \E c \in Coords, t1, t2 \in Threads :
    /\ Exclusive(c)
    /\ t1 # t2
    /\ allocs[c] = 1 /\ destroys[c] = 0
    /\ cur[t1] = c /\ pc[t1] \in {"L57", "L59"} /\ HoldsGuard(t1, c)
    /\ Done(t2) /\ cur[t2] = c /\ outcome[t2] = "returned"
    /\ ret[t2] = instance_ptr_[c]

C19_DeadStaysDead ==
  [][\A c \in Coords :
       (Disp(c) = "Standard" /\ Serialized(c) /\ was_destroyed_[c]) =>
         /\ was_destroyed_'[c]
         /\ instance_ptr_[c] = NULL /\ instance_ptr_'[c] = NULL
         /\ allocs'[c] = allocs[c]
         /\ Pending(c) = 0 /\ Pending(c)' = 0
         /\ \A t \in Threads :
              (pc[t] = "L48" /\ cur[t] = c /\ pc'[t] # "L48") =>
                (pc'[t] = "unwind" /\ outcome'[t] = "dead_instance")]_vars

\* Two calls on a destroyed standard-policy coordinator have both raised
\* the dead-instance error, and the coordinator is as DestroyInstance() left it.
C19_Witness ==
  \E c \in Coords, t1, t2 \in Threads :
    /\ Disp(c) = "Standard" /\ Exclusive(c)
    /\ t1 # t2
    /\ Done(t1) /\ cur[t1] = c /\ outcome[t1] = "dead_instance" /\ call_epoch[t1] = 1
    /\ Done(t2) /\ cur[t2] = c /\ outcome[t2] = "dead_instance" /\ call_epoch[t2] = 1
    /\ was_destroyed_[c] /\ instance_ptr_[c] = NULL /\ allocs[c] = 1 /\ Pending(c) = 0

(***************************************************************************)
(* C20: under the standard and resurrection policies with the mutex or     *)
(* atomic-spin policy, constructions and DestroyInstance registrations are *)
(* paired: outside the creating statements every construction has been     *)
(* registered once; outside the guarded sections one registration is       *)
(* pending when the slot is occupied and none when it is empty;            *)
(* DestroyInstance() never finds the slot empty at line 69 and never       *)
(* deallocates an instance a second time.                                  *)
(***************************************************************************)
C20_AllocationsPairedWithRegistrations ==
  \A c \in Coords :
    (Disp(c) \in {"Standard", "Resurrection"} /\ Exclusive(c)) =>
      /\ ~Creating(c) => allocs[c] = destroys[c] + Pending(c)
      /\ Pending(c) <= 1
      /\ (~Destroying(c) /\ ~\E t \in Threads : cur[t] = c /\ pc[t] \in GuardedLabels) =>
           (instance_ptr_[c] # NULL <=> Pending(c) = 1)
      /\ (pc[Main] = "D69" /\ cleanup_func = c) =>
           /\ instance_ptr_[c] # NULL
           /\ DeallocateFault(c, instance_ptr_[c]) = {}
      /\ "double_free" \notin faults

\* A resurrection coordinator has been constructed, destroyed and
\* constructed again, and its second registration is pending.
C20_Witness ==
  \E c \in Coords :
    /\ Disp(c) = "Resurrection" /\ Exclusive(c)
    /\ allocs[c] = 2 /\ destroys[c] = 1 /\ Pending(c) = 1
    /\ instance_ptr_[c] = Instance(c, 2)
    /\ \A t \in Threads : pc[t] = "idle"

====
